---------------------------- MODULE Spec2Model ----------------------------
(***************************************************************************)
(* Model of the e-commerce backend controllers: the product and review     *)
(* handlers (src/unnamed/part_000) and the dashboard, chart, payment and   *)
(* coupon handlers (src/src/controllers/stats.ts).                         *)
(*                                                                         *)
(* Every handler is an async function: each awaited store or gateway call  *)
(* is one atomic step, and steps of different requests interleave.         *)
(* Ratings are held in tenths (ratings 4.5 is 45).                         *)
(***************************************************************************)
EXTENDS Integers, Sequences, FiniteSets, TLC

\* ------------------------------------------------------------- bounds
\* Product ids the store ever hands out.
MaxProducts == 1
\* Review ids the store ever hands out.
MaxReviews == 3
\* Review ids the store hands out while two requests interleave.
RaceReviews == 2

\* The requests in flight at once: two, whose steps interleave.
Reqs == {1, 2}
ProductIds == 1..MaxProducts
ReviewIds == 1..MaxReviews
\* Rating values a request body carries in the review specifications.
Ratings == {1, 5}

VARIABLES
    products,     \* Product collection: live id -> [stock, ratings, numOfReviews]
    nextProduct,  \* number of Product ids handed out so far
    reviews,      \* Review collection: set of [id, product, rating]
    nextReview,   \* number of Review ids handed out so far
    req,          \* request slot -> the handler running in it and its locals
    res,          \* the response sent last: [op, status, msg, id]
    coupons,      \* Coupon collection: set of [id, code, amount]
    nextCoupon,   \* number of Coupon ids handed out so far
    intents,      \* payment intents the gateway was asked to create
    today,        \* the clock a dashboard or chart handler reads: new Date()
    docs,         \* the timestamped records it queries: collection -> sequence
    out           \* the payload the dashboard or chart handler returns

storeVars == <<products, nextProduct, reviews, nextReview, req, res,
               coupons, nextCoupon, intents>>
\* What the product and review handlers leave alone.
payVars == <<coupons, nextCoupon, intents>>
statVars == <<today, docs, out>>
vars == <<products, nextProduct, reviews, nextReview, req, res,
          coupons, nextCoupon, intents, today, docs, out>>

\* ------------------------------------------------------------ helpers
NoAgg == [ratings |-> 0, numOfReviews |-> 0]

NoBody == [none |-> TRUE]

\* A slot with no request in it. The locals of a handler: the product id p,
\* the review id rid, the aggregate read agg, the rest of the request in body.
Idle == [op |-> "none", pc |-> "idle", p |-> 0, rid |-> 0, agg |-> NoAgg,
         body |-> NoBody]

NoRes == [op |-> "none", status |-> 0, msg |-> "", id |-> 0]

RECURSIVE SumRatings(_)
SumRatings(S) ==
    IF S = {} THEN 0
    ELSE LET x == CHOOSE y \in S : TRUE
         IN  x.rating + SumRatings(S \ {x})

ReviewsOf(p) == {rv \in reviews : rv.product = p}

\* x / n rounded to the nearest integer, halves up (n > 0).
RoundDiv(x, n) == (2 * x + n) \div (2 * n)

\* The rating aggregate of product p over the stored reviews: the count and
\* the mean rounded to one decimal (in tenths), 0 when there are none.
findAverageRatings(p) ==
    LET rs == ReviewsOf(p)
        n  == Cardinality(rs)
    IN  [ratings      |-> IF n = 0 THEN 0 ELSE RoundDiv(10 * SumRatings(rs), n),
         numOfReviews |-> n]

\* What reaches the responder when an awaited call rejects inside TryCatch:
\* the rejection, answered as an internal error.
TryCatch(op, id) ==
    [op |-> op, status |-> 500, msg |-> "Internal Server Error", id |-> id]

\* next(new ErrorHandler(msg, status)).
ErrorHandler(op, msg, status) ==
    [op |-> op, status |-> status, msg |-> msg, id |-> 0]

\* res.status(status).json({success: true, ...}).
Json(op, status, msg) ==
    [op |-> op, status |-> status, msg |-> msg, id |-> 0]

\* Product.findByIdAndUpdate(p, {ratings, numOfReviews}): overwrites the two
\* fields of the product when it exists, and does nothing otherwise.
findByIdAndUpdate(p, agg) ==
    IF p \in DOMAIN products
    THEN [products EXCEPT ![p].ratings = agg.ratings,
                          ![p].numOfReviews = agg.numOfReviews]
    ELSE products

Free(r) == req[r].pc = "idle"

\* ---------------------------------------------------------- newReview
\* Review.create({rating, comment, product, user}).
NewReviewCreate(r, p, rating) ==
    /\ Free(r)
    /\ nextReview < MaxReviews
    /\ nextReview' = nextReview + 1
    /\ reviews' = reviews \cup {[id |-> nextReview + 1, product |-> p, rating |-> rating]}
    /\ req' = [req EXCEPT ![r] = [Idle EXCEPT !.op = "newReview", !.pc = "read",
                                              !.p = p, !.rid = nextReview + 1]]
    /\ UNCHANGED <<products, nextProduct, res, payVars, statVars>>

\* Review.create rejects: nothing is stored.
NewReviewCreateFail(r, p) ==
    /\ Free(r)
    /\ res' = TryCatch("newReview", 0)
    /\ UNCHANGED <<products, nextProduct, reviews, nextReview, req, payVars, statVars>>

\* const { ratings, numOfReviews } = await findAverageRatings(productId).
NewReviewRead(r) ==
    /\ req[r].op = "newReview" /\ req[r].pc = "read"
    /\ req' = [req EXCEPT ![r].pc = "write", ![r].agg = findAverageRatings(req[r].p)]
    /\ UNCHANGED <<products, nextProduct, reviews, nextReview, res, payVars, statVars>>

\* The write-back as a handler that skipped it would leave the product.
NewReviewWriteSkipped(r) ==
    /\ req[r].op = "newReview" /\ req[r].pc = "write"
    /\ req' = [req EXCEPT ![r] = Idle]
    /\ res' = Json("newReview", 201, "Review Added Successfully")
    /\ UNCHANGED <<products, nextProduct, reviews, nextReview, payVars, statVars>>

\* await Product.findByIdAndUpdate(product, {ratings, numOfReviews}); 201.
NewReviewWrite(r) ==
    /\ req[r].op = "newReview" /\ req[r].pc = "write"
    /\ products' = findByIdAndUpdate(req[r].p, req[r].agg)
    /\ req' = [req EXCEPT ![r] = Idle]
    /\ res' = Json("newReview", 201, "Review Added Successfully")
    /\ UNCHANGED <<nextProduct, reviews, nextReview, payVars, statVars>>

\* The failure path as a handler with a compensating delete would take it.
NewReviewFailRollback(r) ==
    /\ req[r].op = "newReview" /\ req[r].pc \in {"read", "write"}
    /\ req' = [req EXCEPT ![r] = Idle]
    /\ res' = TryCatch("newReview", req[r].rid)
    /\ reviews' = {rv \in reviews : rv.id # req[r].rid}
    /\ UNCHANGED <<products, nextProduct, nextReview, payVars, statVars>>

\* The aggregate read or the write-back rejects after the review was stored:
\* the rejection goes to TryCatch; the handler has no catch of its own.
NewReviewFail(r) ==
    /\ req[r].op = "newReview" /\ req[r].pc \in {"read", "write"}
    /\ req' = [req EXCEPT ![r] = Idle]
    /\ res' = TryCatch("newReview", req[r].rid)
    /\ UNCHANGED <<products, nextProduct, reviews, nextReview, payVars, statVars>>

\* ------------------------------------------------------- deleteReview
\* const review = await Review.findById(id); 404 when there is none.
DeleteReviewFind(r, rid) ==
    /\ Free(r)
    /\ LET found == {rv \in reviews : rv.id = rid}
       IN  IF found = {}
           THEN /\ res' = ErrorHandler("deleteReview", "Review Not Found", 404)
                /\ req' = req
           ELSE LET rv == CHOOSE x \in found : TRUE
                IN  /\ req' = [req EXCEPT ![r] = [Idle EXCEPT !.op = "deleteReview",
                                 !.pc = "delete", !.rid = rid, !.p = rv.product]]
                                    /\ res' = res
    /\ UNCHANGED <<products, nextProduct, reviews, nextReview, payVars, statVars>>

\* Review.findById rejects.
DeleteReviewFindFail(r) ==
    /\ Free(r)
    /\ res' = TryCatch("deleteReview", 0)
    /\ UNCHANGED <<products, nextProduct, reviews, nextReview, req, payVars, statVars>>

\* await review.deleteOne().
DeleteReviewDelete(r) ==
    /\ req[r].op = "deleteReview" /\ req[r].pc = "delete"
    /\ reviews' = {rv \in reviews : rv.id # req[r].rid}
    /\ req' = [req EXCEPT ![r].pc = "read"]
    /\ UNCHANGED <<products, nextProduct, nextReview, res, payVars, statVars>>

\* review.deleteOne() rejects: the review stays.
DeleteReviewDeleteFail(r) ==
    /\ req[r].op = "deleteReview" /\ req[r].pc = "delete"
    /\ req' = [req EXCEPT ![r] = Idle]
    /\ res' = TryCatch("deleteReview", 0)
    /\ UNCHANGED <<products, nextProduct, reviews, nextReview, payVars, statVars>>

\* const { ratings, numOfReviews } = await findAverageRatings(review.product).
DeleteReviewRead(r) ==
    /\ req[r].op = "deleteReview" /\ req[r].pc = "read"
    /\ req' = [req EXCEPT ![r].pc = "write", ![r].agg = findAverageRatings(req[r].p)]
    /\ UNCHANGED <<products, nextProduct, reviews, nextReview, res, payVars, statVars>>

\* The write-back as a handler that recomputed at the write would do it.
DeleteReviewWriteFresh(r) ==
    /\ req[r].op = "deleteReview" /\ req[r].pc = "write"
    /\ products' = findByIdAndUpdate(req[r].p, findAverageRatings(req[r].p))
    /\ req' = [req EXCEPT ![r] = Idle]
    /\ res' = Json("deleteReview", 200, "Review Deleted Successfully")
    /\ UNCHANGED <<nextProduct, reviews, nextReview, payVars, statVars>>

\* await Product.findByIdAndUpdate(review.product, {ratings, numOfReviews}); 200.
DeleteReviewWrite(r) ==
    /\ req[r].op = "deleteReview" /\ req[r].pc = "write"
    /\ products' = findByIdAndUpdate(req[r].p, req[r].agg)
    /\ req' = [req EXCEPT ![r] = Idle]
    /\ res' = Json("deleteReview", 200, "Review Deleted Successfully")
    /\ UNCHANGED <<nextProduct, reviews, nextReview, payVars, statVars>>

\* The aggregate read or the write-back rejects after the review was deleted.
DeleteReviewFail(r) ==
    /\ req[r].op = "deleteReview" /\ req[r].pc \in {"read", "write"}
    /\ req' = [req EXCEPT ![r] = Idle]
    /\ res' = TryCatch("deleteReview", req[r].rid)
    /\ UNCHANGED <<products, nextProduct, reviews, nextReview, payVars, statVars>>

\* ------------------------------------------------- review specification
NewProductDoc(stock) == [stock |-> stock, ratings |-> 0, numOfReviews |-> 0]

\* The clock and the queried records while no dashboard or chart handler runs.
NoDate == [y |-> 0, m |-> 0, d |-> 1, t |-> 0]
NoDocs == [product |-> <<>>, user |-> <<>>, order |-> <<>>]
NoOut == [op |-> "none"]

StatsIdle == today = NoDate /\ docs = NoDocs /\ out = NoOut

\* The store of the review specifications: every product there, no review, no
\* coupon, no request in flight.
StoreIdle ==
    /\ products = [p \in ProductIds |-> NewProductDoc(1)]
    /\ nextProduct = MaxProducts
    /\ reviews = {}
    /\ nextReview = 0
    /\ req = [r \in Reqs |-> Idle]
    /\ res = NoRes
    /\ coupons = {}
    /\ nextCoupon = 0
    /\ intents = 0

InitStore == StoreIdle /\ StatsIdle

\* The steps of request r that follow its first store call, failures apart.
ReviewSteps(r) ==
    \/ NewReviewRead(r)
    \/ NewReviewWrite(r)
    \/ DeleteReviewDelete(r)
    \/ DeleteReviewRead(r)
    \/ DeleteReviewWrite(r)

\* A store call of request r rejects.
ReviewFailures(r) ==
    \/ \E p \in ProductIds : NewReviewCreateFail(r, p)
    \/ NewReviewFail(r)
    \/ DeleteReviewFindFail(r)
    \/ DeleteReviewDeleteFail(r)
    \/ DeleteReviewFail(r)

\* One review request at a time, no store call failing.
NextSeq ==
    \/ \E p \in ProductIds, rating \in Ratings : NewReviewCreate(1, p, rating)
    \/ \E rid \in ReviewIds : DeleteReviewFind(1, rid)
    \/ ReviewSteps(1)

SpecSeq == InitStore /\ [][NextSeq]_vars

\* Two review requests whose steps interleave, no store call failing.
NextRace ==
    \E r \in Reqs :
        \/ /\ nextReview < RaceReviews
           /\ \E p \in ProductIds, rating \in Ratings : NewReviewCreate(r, p, rating)
        \/ \E rid \in 1..RaceReviews : DeleteReviewFind(r, rid)
        \/ ReviewSteps(r)

SpecRace == InitStore /\ [][NextRace]_vars

\* Two review requests whose steps interleave, any store call failing.
NextFail ==
    \E r \in Reqs :
        \/ /\ nextReview < RaceReviews
           /\ \E p \in ProductIds, rating \in Ratings : NewReviewCreate(r, p, rating)
        \/ \E rid \in 1..RaceReviews : DeleteReviewFind(r, rid)
        \/ ReviewSteps(r)
        \/ ReviewFailures(r)

SpecFail == InitStore /\ [][NextFail]_vars

\* ------------------------------------------------- dates (JS Date)
\* An instant is [y, m, d, t]: year, month 0..11, day of month, and the time
\* of day t (0 is midnight, 1 and 2 are later in the day).
IsLeap(y) == (y % 4 = 0 /\ y % 100 # 0) \/ y % 400 = 0

DaysIn(y, m) ==
    IF m = 1 THEN (IF IsLeap(y) THEN 29 ELSE 28)
    ELSE IF m \in {3, 5, 8, 10} THEN 30 ELSE 31

\* The order of instants.
Key(i) == ((i.y * 12 + i.m) * 32 + i.d) * 3 + i.t

\* Month index mi (year * 12 + month), day d and time t as a Date: a day past
\* the month's end rolls into the next month, day 0 is the last day of the
\* month before.
Normalize(mi, d, t) ==
    LET y == mi \div 12
        m == mi % 12
    IN  IF d = 0
        THEN [y |-> (mi - 1) \div 12, m |-> (mi - 1) % 12,
              d |-> DaysIn((mi - 1) \div 12, (mi - 1) % 12), t |-> t]
        ELSE IF d > DaysIn(y, m)
        THEN [y |-> (mi + 1) \div 12, m |-> (mi + 1) % 12, d |-> d - DaysIn(y, m), t |-> t]
        ELSE [y |-> y, m |-> m, d |-> d, t |-> t]

\* new Date(y, m, d): local midnight.
NewDate(y, m, d) == Normalize(y * 12 + m, d, 0)

\* date.setMonth(date.getMonth() - k): the day and the time of day are kept.
SetMonthBack(date, k) == Normalize(date.y * 12 + date.m - k, date.d, date.t)

\* Model.find({createdAt: {$gte: from, $lte: to}}) over a collection.
FindBetween(coll, from, to) ==
    SelectSeq(coll, LAMBDA doc : Key(from) <= Key(doc.createdAt)
                                 /\ Key(doc.createdAt) <= Key(to))

\* order[field] || 0.
Field(doc, field) == IF field \in DOMAIN doc THEN doc[field] ELSE 0

RECURSIVE SumField(_, _)
SumField(coll, field) ==
    IF coll = <<>> THEN 0
    ELSE Field(Head(coll), field) + SumField(Tail(coll), field)

\* ------------------------------------------------ getDashboardStats
\* The relative growth between two period aggregates, in whole percent.
calculatePercentage(thisMonth, lastMonth) ==
    IF lastMonth = 0 THEN thisMonth * 100
    ELSE RoundDiv((thisMonth - lastMonth) * 100, lastMonth)

\* lastMonth.end: new Date(today.getFullYear(), today.getMonth(), 0).
LastMonthEnd(now) == NewDate(now.y, now.m, 0)

\* The period aggregates of getDashboardStats and the changes derived from
\* them: the documents of this month and of last month per collection.
getDashboardStats(now, store) ==
    LET thisStart == NewDate(now.y, now.m, 1)
        thisEnd   == now
        lastStart == NewDate(now.y, now.m - 1, 1)
        lastEnd   == LastMonthEnd(now)
        thisMonth == [c \in DOMAIN store |-> FindBetween(store[c], thisStart, thisEnd)]
        lastMonth == [c \in DOMAIN store |-> FindBetween(store[c], lastStart, lastEnd)]
        thisMonthRevenue == SumField(thisMonth.order, "total")
        lastMonthRevenue == SumField(lastMonth.order, "total")
    IN  [op |-> "getDashboardStats",
         thisMonth |-> [c \in DOMAIN store |-> Len(thisMonth[c])],
         lastMonth |-> [c \in DOMAIN store |-> Len(lastMonth[c])],
         changePercent |->
            [revenue |-> calculatePercentage(thisMonthRevenue, lastMonthRevenue),
             product |-> calculatePercentage(Len(thisMonth.product), Len(lastMonth.product)),
             user    |-> calculatePercentage(Len(thisMonth.user), Len(lastMonth.user)),
             order   |-> calculatePercentage(Len(thisMonth.order), Len(lastMonth.order))],
         count |-> [revenue |-> thisMonthRevenue,
                    product |-> Len(store.product),
                    user    |-> Len(store.user),
                    order   |-> Len(store.order)]]

\* ------------------------------------------ getBarCharts, getLineCharts
\* (today.year - record.year) * 12 + (today.month - record.month).
MonthsAgo(now, doc) == (now.y - doc.createdAt.y) * 12 + (now.m - doc.createdAt.m)

\* The series of `length` monthly buckets, oldest first: each document of
\* docArr within the window adds 1, or its value of `property`, to the bucket
\* of its month; a document outside the window is ignored.
RECURSIVE getChartData(_, _, _, _)
getChartData(length, now, docArr, property) ==
    IF docArr = <<>> THEN [i \in 1..length |-> 0]
    ELSE LET doc  == Head(docArr)
             rest == getChartData(length, now, Tail(docArr), property)
             ago  == MonthsAgo(now, doc)
             add  == IF property = "" THEN 1 ELSE Field(doc, property)
         IN  IF 0 <= ago /\ ago < length
             THEN [rest EXCEPT ![length - ago] = @ + add]
             ELSE rest

\* getBarCharts as a handler that bucketed every series over 12 months would.
getBarChartsTwelve(now, store) ==
    LET sixMonthsAgo    == SetMonthBack(now, 6)
        twelveMonthsAgo == SetMonthBack(now, 12)
        found    == FindBetween(store.product, sixMonthsAgo, now)
        users    == FindBetween(store.user, sixMonthsAgo, now)
        orders   == FindBetween(store.order, twelveMonthsAgo, now)
    IN  [op |-> "getBarCharts",
         charts |-> [users    |-> getChartData(12, now, users, ""),
                     products |-> getChartData(12, now, found, ""),
                     orders   |-> getChartData(12, now, orders, "")]]

getBarCharts(now, store) ==
    LET sixMonthsAgo    == SetMonthBack(now, 6)
        twelveMonthsAgo == SetMonthBack(now, 12)
        found    == FindBetween(store.product, sixMonthsAgo, now)
        users    == FindBetween(store.user, sixMonthsAgo, now)
        orders   == FindBetween(store.order, twelveMonthsAgo, now)
    IN  [op |-> "getBarCharts",
         charts |-> [users    |-> getChartData(6, now, users, ""),
                     products |-> getChartData(6, now, found, ""),
                     orders   |-> getChartData(12, now, orders, "")]]

getLineCharts(now, store) ==
    LET twelveMonthsAgo == SetMonthBack(now, 12)
        found    == FindBetween(store.product, twelveMonthsAgo, now)
        users    == FindBetween(store.user, twelveMonthsAgo, now)
        orders   == FindBetween(store.order, twelveMonthsAgo, now)
    IN  [op |-> "getLineCharts",
         charts |-> [users    |-> getChartData(12, now, users, ""),
                     products |-> getChartData(12, now, found, ""),
                     discount |-> getChartData(12, now, orders, "discount"),
                     revenue  |-> getChartData(12, now, orders, "total")]]

\* ------------------------------------------------ chart specification
\* The year of the clock, and how many months back a record may be dated.
ClockYear == 2024
MonthsBack == 13
\* The records one collection holds.
MaxDocs == 1

\* The clock: mid-month or the last day of a month of ClockYear, at midday.
ValidClocks ==
    {c \in {[y |-> ClockYear, m |-> m, d |-> d, t |-> 1] : m \in 0..11, d \in 1..31} :
        c.d = 15 \/ c.d = DaysIn(c.y, c.m)}

\* A record dated up to MonthsBack months before the clock's month: at the
\* first midnight of a month, or on its last day at midnight or in the evening.
DocsFor(now) ==
    LET mis == (now.y * 12 + now.m - MonthsBack)..(now.y * 12 + now.m)
    IN  {[createdAt |-> [y |-> mi \div 12, m |-> mi % 12, d |-> d, t |-> t],
          discount |-> 2, total |-> 7] :
            mi \in mis, d \in 1..31, t \in {0, 2}}

ValidDocsFor(now) ==
    {doc \in DocsFor(now) :
        \/ doc.createdAt.d = 1 /\ doc.createdAt.t = 0
        \/ doc.createdAt.d = DaysIn(doc.createdAt.y, doc.createdAt.m)}

RECURSIVE SeqsUpTo(_, _)
SeqsUpTo(S, n) ==
    IF n = 0 THEN {<<>>}
    ELSE LET shorter == SeqsUpTo(S, n - 1)
         IN  shorter \cup {Append(q, x) : q \in shorter, x \in S}

InitCharts ==
    /\ StoreIdle
    /\ today \in ValidClocks
    /\ \E c \in DOMAIN NoDocs, q \in SeqsUpTo(ValidDocsFor(today), MaxDocs) :
          docs = [NoDocs EXCEPT ![c] = q]
    /\ out = NoOut

Dashboard ==
    /\ out' = getDashboardStats(today, docs)
    /\ UNCHANGED <<storeVars, today, docs>>

BarCharts ==
    /\ out' = getBarCharts(today, docs)
    /\ UNCHANGED <<storeVars, today, docs>>

LineCharts ==
    /\ out' = getLineCharts(today, docs)
    /\ UNCHANGED <<storeVars, today, docs>>

NextCharts == Dashboard \/ BarCharts \/ LineCharts

SpecCharts == InitCharts /\ [][NextCharts]_vars

\* ------------------------------------- getPieCharts: revenue distribution
\* Amounts of the distribution are held in tenths (productionCost 3.3 is 33).
\* The distribution with the marketing cost rounded down.
revenueDistributionFloor(allOrders) ==
    LET grossIncome    == SumField(allOrders, "total")
        discount       == SumField(allOrders, "discount")
        productionCost == SumField(allOrders, "subtotal") * 3
        burnt          == SumField(allOrders, "tax") + SumField(allOrders, "shippingCharges")
        marketingCost  == (grossIncome * 30) \div 100
    IN  [netMargin |-> 10 * grossIncome - 10 * discount - productionCost
                         - 10 * burnt - 10 * marketingCost,
         discount |-> 10 * discount,
         productionCost |-> productionCost,
         burnt |-> 10 * burnt,
         marketingCost |-> 10 * marketingCost]

\* The revenue distribution of getPieCharts; Math.round(grossIncome * (30 /
\* 100)) is to the nearest integer, halves up.
revenueDistribution(allOrders) ==
    LET grossIncome    == SumField(allOrders, "total")
        discount       == SumField(allOrders, "discount")
        productionCost == SumField(allOrders, "subtotal") * 3
        burnt          == SumField(allOrders, "tax") + SumField(allOrders, "shippingCharges")
        marketingCost  == RoundDiv(grossIncome * 30, 100)
    IN  [netMargin |-> 10 * grossIncome - 10 * discount - productionCost
                         - 10 * burnt - 10 * marketingCost,
         discount |-> 10 * discount,
         productionCost |-> productionCost,
         burnt |-> 10 * burnt,
         marketingCost |-> 10 * marketingCost]

\* The orders one request sees.
MaxOrders == 2

\* The value a numeric field of an order holds when it is there.
OrderValues ==
    [total |-> {5, 12}, discount |-> {1}, subtotal |-> {11}, tax |-> {2},
     shippingCharges |-> {3}]

\* Orders with any of the numeric fields missing.
Orders ==
    UNION {{o \in [F -> {1, 2, 3, 5, 11, 12}] : \A f \in F : o[f] \in OrderValues[f]} :
              F \in SUBSET DOMAIN OrderValues}

InitRevenue ==
    /\ StoreIdle
    /\ today = NoDate
    /\ \E q \in SeqsUpTo(Orders, MaxOrders) : docs = [NoDocs EXCEPT !.order = q]
    /\ out = NoOut

PieRevenue ==
    /\ out' = [op |-> "getPieCharts",
               revenueDistribution |-> revenueDistribution(docs.order)]
    /\ UNCHANGED <<storeVars, today, docs>>

SpecRevenue == InitRevenue /\ [][PieRevenue]_vars

\* ------------------------------------------------------------ coupons
\* Coupon ids the store ever hands out, and gateway calls that succeed.
MaxCoupons == 1
MaxIntents == 1

CouponIds == 1..(MaxCoupons + 1)
\* What a coupon request carries: a code (or none), an amount (or none).
Codes == {"", "SAVE10"}
Amounts == {0, 10}
\* The stored users; a request names one of them, another id, or none (0).
Users == {1}
UserIds == {0, 1, 2}

prodVars == <<products, nextProduct, reviews, nextReview>>

\* A store call of a handler with a single one rejects.
StoreCallFail(r, op) ==
    /\ Free(r)
    /\ res' = TryCatch(op, 0)
    /\ UNCHANGED <<prodVars, req, payVars, statVars>>

\* newCoupon: 400 without code or amount, else Coupon.create and 201.
NewCoupon(r, code, amount) ==
    /\ Free(r)
    /\ IF code = "" \/ amount = 0
       THEN /\ res' = ErrorHandler("newCoupon", "Please enter both coupon and amount", 400)
            /\ UNCHANGED <<coupons, nextCoupon>>
       ELSE /\ nextCoupon < MaxCoupons
            /\ nextCoupon' = nextCoupon + 1
            /\ coupons' = coupons \cup
                  {[id |-> nextCoupon + 1, code |-> code, amount |-> amount]}
            /\ res' = Json("newCoupon", 201, "Coupon Created Successfully")
    /\ UNCHANGED <<prodVars, req, intents, statVars>>

\* applyDiscount: Coupon.findOne({code}); 400 when there is none.
ApplyDiscount(r, code) ==
    /\ Free(r)
    /\ res' = IF \E c \in coupons : c.code = code
              THEN Json("applyDiscount", 200, "discount")
              ELSE ErrorHandler("applyDiscount", "Invalid Coupon Code", 400)
    /\ UNCHANGED <<prodVars, req, payVars, statVars>>

\* allCoupons: Coupon.find({}).
AllCoupons(r) ==
    /\ Free(r)
    /\ res' = Json("allCoupons", 200, "coupons")
    /\ UNCHANGED <<prodVars, req, payVars, statVars>>

\* getCoupon: Coupon.findById(id); 400 when there is none.
GetCoupon(r, id) ==
    /\ Free(r)
    /\ res' = IF \E c \in coupons : c.id = id
              THEN [Json("getCoupon", 200, "coupon") EXCEPT !.id = id]
              ELSE [ErrorHandler("getCoupon", "Invalid Coupon ID", 400) EXCEPT !.id = id]
    /\ UNCHANGED <<prodVars, req, payVars, statVars>>

\* updateCoupon: Coupon.findById(id); 400 when there is none.
UpdateCouponFind(r, id, code, amount) ==
    /\ Free(r)
    /\ IF \E c \in coupons : c.id = id
       THEN /\ req' = [req EXCEPT ![r] = [Idle EXCEPT !.op = "updateCoupon",
                          !.pc = "save", !.rid = id,
                          !.body = [code |-> code, amount |-> amount]]]
            /\ res' = res
       ELSE /\ res' = [ErrorHandler("updateCoupon", "Invalid Coupon ID", 400) EXCEPT !.id = id]
            /\ req' = req
    /\ UNCHANGED <<prodVars, payVars, statVars>>

\* if (code) coupon.code = code; if (amount) coupon.amount = amount;
\* await coupon.save(): a document deleted meanwhile makes save reject.
UpdateCouponSave(r) ==
    /\ req[r].op = "updateCoupon" /\ req[r].pc = "save"
    /\ LET b == req[r].body
           modified == b.code # "" \/ b.amount # 0
       IN  IF modified /\ ~\E c \in coupons : c.id = req[r].rid
           THEN /\ res' = TryCatch("updateCoupon", req[r].rid)
                /\ coupons' = coupons
           ELSE /\ coupons' =
                     {IF c.id = req[r].rid
                      THEN [c EXCEPT !.code = IF b.code # "" THEN b.code ELSE @,
                                     !.amount = IF b.amount # 0 THEN b.amount ELSE @]
                      ELSE c : c \in coupons}
                /\ res' = [Json("updateCoupon", 200, "Coupon Updated Successfully")
                              EXCEPT !.id = req[r].rid]
    /\ req' = [req EXCEPT ![r] = Idle]
    /\ UNCHANGED <<prodVars, nextCoupon, intents, statVars>>

\* coupon.save() rejects.
UpdateCouponFail(r) ==
    /\ req[r].op = "updateCoupon" /\ req[r].pc = "save"
    /\ res' = TryCatch("updateCoupon", req[r].rid)
    /\ req' = [req EXCEPT ![r] = Idle]
    /\ UNCHANGED <<prodVars, payVars, statVars>>

\* deleteCoupon as a handler without the check of what was found would answer.
DeleteCouponUnchecked(r, id) ==
    /\ Free(r)
    /\ coupons' = {c \in coupons : c.id # id}
    /\ res' = [Json("deleteCoupon", 200, "Coupon Deleted Successfully") EXCEPT !.id = id]
    /\ UNCHANGED <<prodVars, req, nextCoupon, intents, statVars>>

\* deleteCoupon: Coupon.findByIdAndDelete(id); 400 when nothing was found.
DeleteCoupon(r, id) ==
    /\ Free(r)
    /\ coupons' = {c \in coupons : c.id # id}
    /\ res' = IF \E c \in coupons : c.id = id
              THEN [Json("deleteCoupon", 200, "Coupon Deleted Successfully") EXCEPT !.id = id]
              ELSE [ErrorHandler("deleteCoupon", "Invalid Coupon ID", 400) EXCEPT !.id = id]
    /\ UNCHANGED <<prodVars, req, nextCoupon, intents, statVars>>

CouponHandlers(r) ==
    \/ \E code \in Codes, amount \in Amounts : NewCoupon(r, code, amount)
    \/ \E code \in Codes : ApplyDiscount(r, code)
    \/ AllCoupons(r)
    \/ \E id \in CouponIds : GetCoupon(r, id)
    \/ \E id \in CouponIds, code \in Codes, amount \in Amounts :
          UpdateCouponFind(r, id, code, amount)
    \/ UpdateCouponSave(r)
    \/ UpdateCouponFail(r)
    \/ \E id \in CouponIds : DeleteCoupon(r, id)
    \/ \E op \in {"newCoupon", "applyDiscount", "allCoupons", "getCoupon",
                  "updateCoupon", "deleteCoupon"} : StoreCallFail(r, op)

\* ------------------------------------------------ createPaymentIntent
\* The request: the user id of the query (0: none), the number of items, the
\* shipping info (none, without a pinCode, or full) and the coupon code.
PayBodies ==
    [id : UserIds, items : {0, 1}, shipping : {"none", "nopin", "full"}, coupon : Codes]

PayError(msg, status) == ErrorHandler("createPaymentIntent", msg, status)

PayArrive(r, body) ==
    /\ Free(r)
    /\ req' = [req EXCEPT ![r] = [Idle EXCEPT !.op = "createPaymentIntent",
                                              !.pc = "checkId", !.body = body]]
    /\ UNCHANGED <<prodVars, res, payVars, statVars>>

\* The id check forwarding 400 where the handler forwards 401.
PayCheckIdBadRequest(r) ==
    /\ req[r].op = "createPaymentIntent" /\ req[r].pc = "checkId"
    /\ IF req[r].body.id = 0
       THEN /\ res' = PayError("Please login first", 400)
            /\ req' = [req EXCEPT ![r] = Idle]
       ELSE /\ res' = res
            /\ req' = [req EXCEPT ![r].pc = "findUser"]
    /\ UNCHANGED <<prodVars, payVars, statVars>>

\* if (!id) return next(new ErrorHandler("Please login first", 401)).
PayCheckId(r) ==
    /\ req[r].op = "createPaymentIntent" /\ req[r].pc = "checkId"
    /\ IF req[r].body.id = 0
       THEN /\ res' = PayError("Please login first", 401)
            /\ req' = [req EXCEPT ![r] = Idle]
       ELSE /\ res' = res
            /\ req' = [req EXCEPT ![r].pc = "findUser"]
    /\ UNCHANGED <<prodVars, payVars, statVars>>

\* const user = await User.findById(id), then the checks of the body up to
\* the coupon lookup.
PayFindUser(r) ==
    /\ req[r].op = "createPaymentIntent" /\ req[r].pc = "findUser"
    /\ LET b == req[r].body
           err == IF b.id \notin Users THEN PayError("Invalid user ID or not logged in", 401)
                  ELSE IF b.items = 0 THEN PayError("Please add items to cart", 400)
                  ELSE IF b.shipping = "none"
                       THEN PayError("Please provide shipping info", 400)
                  ELSE NoRes
       IN  IF err # NoRes
           THEN /\ res' = err
                /\ req' = [req EXCEPT ![r] = Idle]
           ELSE /\ res' = res
                /\ req' = [req EXCEPT ![r].pc =
                              IF b.coupon # "" THEN "findCoupon" ELSE "findProducts"]
    /\ UNCHANGED <<prodVars, payVars, statVars>>

\* const discount = await Coupon.findOne({code: coupon}); 400 when none.
PayFindCoupon(r) ==
    /\ req[r].op = "createPaymentIntent" /\ req[r].pc = "findCoupon"
    /\ IF \E c \in coupons : c.code = req[r].body.coupon
       THEN /\ res' = res
            /\ req' = [req EXCEPT ![r].pc = "findProducts"]
       ELSE /\ res' = PayError("Invalid Coupon Code", 400)
            /\ req' = [req EXCEPT ![r] = Idle]
    /\ UNCHANGED <<prodVars, payVars, statVars>>

\* const products = await Product.find(...), the amounts, and the arguments
\* of the gateway call: shippingInfo.pinCode.toString() throws without a
\* pinCode, which the handler's catch answers.
PayFindProducts(r) ==
    /\ req[r].op = "createPaymentIntent" /\ req[r].pc = "findProducts"
    /\ IF req[r].body.shipping = "nopin"
       THEN /\ res' = PayError("Payment Intent Creation Failed", 500)
            /\ req' = [req EXCEPT ![r] = Idle]
       ELSE /\ res' = res
            /\ req' = [req EXCEPT ![r].pc = "gateway"]
    /\ UNCHANGED <<prodVars, payVars, statVars>>

\* await stripe.paymentIntents.create(...); 201 with the client secret.
PayGateway(r) ==
    /\ req[r].op = "createPaymentIntent" /\ req[r].pc = "gateway"
    /\ intents < MaxIntents
    /\ intents' = intents + 1
    /\ res' = Json("createPaymentIntent", 201, "clientSecret")
    /\ req' = [req EXCEPT ![r] = Idle]
    /\ UNCHANGED <<prodVars, coupons, nextCoupon, statVars>>

\* The failure path as a handler without its own catch would take it.
PayFailUncaught(r) ==
    /\ req[r].op = "createPaymentIntent"
    /\ req[r].pc \in {"findUser", "findCoupon", "findProducts", "gateway"}
    /\ res' = TryCatch("createPaymentIntent", 0)
    /\ req' = [req EXCEPT ![r] = Idle]
    /\ UNCHANGED <<prodVars, payVars, statVars>>

\* A store call or the gateway call rejects: catch (error) forwards
\* "Payment Intent Creation Failed", 500.
PayFail(r) ==
    /\ req[r].op = "createPaymentIntent"
    /\ req[r].pc \in {"findUser", "findCoupon", "findProducts", "gateway"}
    /\ res' = PayError("Payment Intent Creation Failed", 500)
    /\ req' = [req EXCEPT ![r] = Idle]
    /\ UNCHANGED <<prodVars, payVars, statVars>>

PayHandler(r) ==
    \/ \E body \in PayBodies : PayArrive(r, body)
    \/ PayCheckId(r)
    \/ PayFindUser(r)
    \/ PayFindCoupon(r)
    \/ PayFindProducts(r)
    \/ PayGateway(r)
    \/ PayFail(r)

\* The coupon and payment handlers, one request at a time.
NextPay == CouponHandlers(1) \/ PayHandler(1)

SpecPay == InitStore /\ [][NextPay]_vars

\* ----------------------------------------------------------- products
\* Review ids the store hands out in the handler specification.
ApiReviews == 1

\* The ids a product request names: the ids the store hands out and one more.
ApiProductIds == 1..(MaxProducts + 1)
\* The stock a product request carries (0 also stands for none given).
Stocks == {0, 1}

revVars == <<reviews, nextReview>>

\* The read-only product handlers: one or two finds, then 200.
ReadProducts(r, op) ==
    /\ Free(r)
    /\ res' = Json(op, 200, "")
    /\ UNCHANGED <<prodVars, req, payVars, statVars>>

\* getSingleProduct: Product.findById(id); 404 when there is none.
GetSingleProduct(r, id) ==
    /\ Free(r)
    /\ res' = IF id \in DOMAIN products
              THEN [Json("getSingleProduct", 200, "product") EXCEPT !.id = id]
              ELSE [ErrorHandler("getSingleProduct", "Product Not Found", 404)
                       EXCEPT !.id = id]
    /\ UNCHANGED <<prodVars, req, payVars, statVars>>

\* newProduct up to the upload: 500 without the Cloudinary configuration,
\* 400 without photos.
NewProductCheck(r, configured, photos, stock) ==
    /\ Free(r)
    /\ IF ~configured
       THEN /\ res' = ErrorHandler("newProduct", "Cloudinary Configuration Missing", 500)
            /\ req' = req
       ELSE IF photos = 0
       THEN /\ res' = ErrorHandler("newProduct", "Please add Photos", 400)
            /\ req' = req
       ELSE /\ res' = res
            /\ req' = [req EXCEPT ![r] = [Idle EXCEPT !.op = "newProduct",
                          !.pc = "upload", !.body = [stock |-> stock]]]
    /\ UNCHANGED <<prodVars, payVars, statVars>>

\* const photosURL = await uploadToCloudinary(photos).
NewProductUpload(r) ==
    /\ req[r].op = "newProduct" /\ req[r].pc = "upload"
    /\ req' = [req EXCEPT ![r].pc = "create"]
    /\ UNCHANGED <<prodVars, res, payVars, statVars>>

\* await Product.create({...}); 201.
NewProductCreate(r) ==
    /\ req[r].op = "newProduct" /\ req[r].pc = "create"
    /\ nextProduct < MaxProducts
    /\ nextProduct' = nextProduct + 1
    /\ products' = [p \in DOMAIN products \cup {nextProduct + 1} |->
                       IF p = nextProduct + 1 THEN NewProductDoc(req[r].body.stock)
                       ELSE products[p]]
    /\ res' = Json("newProduct", 201, "Product Created Successfully")
    /\ req' = [req EXCEPT ![r] = Idle]
    /\ UNCHANGED <<revVars, payVars, statVars>>

\* The upload or the create rejects: catch (error) forwards its message, 500.
NewProductFail(r) ==
    /\ req[r].op = "newProduct" /\ req[r].pc \in {"upload", "create"}
    /\ res' = ErrorHandler("newProduct", "error.message", 500)
    /\ req' = [req EXCEPT ![r] = Idle]
    /\ UNCHANGED <<prodVars, payVars, statVars>>

\* updateProduct: Product.findById(id); 404 when there is none.
UpdateProductFind(r, id, photos, stock) ==
    /\ Free(r)
    /\ IF id \in DOMAIN products
       THEN /\ req' = [req EXCEPT ![r] = [Idle EXCEPT !.op = "updateProduct",
                          !.pc = IF photos > 0 THEN "upload" ELSE "save",
                          !.p = id, !.body = [stock |-> stock]]]
            /\ res' = res
       ELSE /\ res' = [ErrorHandler("updateProduct", "Product Not Found", 404)
                          EXCEPT !.id = id]
            /\ req' = req
    /\ UNCHANGED <<prodVars, payVars, statVars>>

\* await uploadToCloudinary(photos).
UpdateProductUpload(r) ==
    /\ req[r].op = "updateProduct" /\ req[r].pc = "upload"
    /\ req' = [req EXCEPT ![r].pc = "destroy"]
    /\ UNCHANGED <<prodVars, res, payVars, statVars>>

\* await deleteFromCloudinary(...).
UpdateProductDestroy(r) ==
    /\ req[r].op = "updateProduct" /\ req[r].pc = "destroy"
    /\ req' = [req EXCEPT ![r].pc = "save"]
    /\ UNCHANGED <<prodVars, res, payVars, statVars>>

\* if (stock) product.stock = stock; ... await product.save(): writes the
\* modified fields; a document deleted meanwhile makes save reject.
UpdateProductSave(r) ==
    /\ req[r].op = "updateProduct" /\ req[r].pc = "save"
    /\ LET id == req[r].p
           stock == req[r].body.stock
       IN  IF id \in DOMAIN products
           THEN /\ products' = IF stock # 0 THEN [products EXCEPT ![id].stock = stock]
                               ELSE products
                /\ res' = [Json("updateProduct", 200, "Product Updated Successfully")
                              EXCEPT !.id = id]
           ELSE /\ products' = products
                /\ res' = IF stock # 0 THEN TryCatch("updateProduct", id)
                          ELSE [Json("updateProduct", 200, "Product Updated Successfully")
                                   EXCEPT !.id = id]
    /\ req' = [req EXCEPT ![r] = Idle]
    /\ UNCHANGED <<nextProduct, revVars, payVars, statVars>>

\* An awaited call of updateProduct rejects.
UpdateProductFail(r) ==
    /\ req[r].op = "updateProduct"
    /\ res' = TryCatch("updateProduct", req[r].p)
    /\ req' = [req EXCEPT ![r] = Idle]
    /\ UNCHANGED <<prodVars, payVars, statVars>>

\* deleteProduct: Product.findById(id); 404 when there is none.
DeleteProductFind(r, id) ==
    /\ Free(r)
    /\ IF id \in DOMAIN products
       THEN /\ req' = [req EXCEPT ![r] = [Idle EXCEPT !.op = "deleteProduct",
                          !.pc = "destroy", !.p = id]]
            /\ res' = res
       ELSE /\ res' = [ErrorHandler("deleteProduct", "Product Not Found", 404)
                          EXCEPT !.id = id]
            /\ req' = req
    /\ UNCHANGED <<prodVars, payVars, statVars>>

\* await deleteFromCloudinary(...).
DeleteProductDestroy(r) ==
    /\ req[r].op = "deleteProduct" /\ req[r].pc = "destroy"
    /\ req' = [req EXCEPT ![r].pc = "delete"]
    /\ UNCHANGED <<prodVars, res, payVars, statVars>>

\* await product.deleteOne(); 200. The reviews of the product are not touched.
DeleteProductDelete(r) ==
    /\ req[r].op = "deleteProduct" /\ req[r].pc = "delete"
    /\ products' = [p \in DOMAIN products \ {req[r].p} |-> products[p]]
    /\ res' = [Json("deleteProduct", 200, "Product Deleted Successfully")
                  EXCEPT !.id = req[r].p]
    /\ req' = [req EXCEPT ![r] = Idle]
    /\ UNCHANGED <<nextProduct, revVars, payVars, statVars>>

\* An awaited call of deleteProduct rejects.
DeleteProductFail(r) ==
    /\ req[r].op = "deleteProduct"
    /\ res' = TryCatch("deleteProduct", req[r].p)
    /\ req' = [req EXCEPT ![r] = Idle]
    /\ UNCHANGED <<prodVars, payVars, statVars>>

\* The handlers that write the Product collection.
ProductWriters(r) ==
    \/ \E configured \in BOOLEAN, photos \in {0, 1}, stock \in Stocks :
          NewProductCheck(r, configured, photos, stock)
    \/ NewProductUpload(r)
    \/ NewProductCreate(r)
    \/ NewProductFail(r)
    \/ \E id \in ApiProductIds, photos \in {0, 1}, stock \in Stocks :
          UpdateProductFind(r, id, photos, stock)
    \/ UpdateProductUpload(r)
    \/ UpdateProductDestroy(r)
    \/ UpdateProductSave(r)
    \/ UpdateProductFail(r)
    \/ \E id \in ApiProductIds : DeleteProductFind(r, id)
    \/ DeleteProductDestroy(r)
    \/ DeleteProductDelete(r)
    \/ DeleteProductFail(r)

ProductReaders(r) ==
    \/ \E op \in {"getlatestProducts", "getAllCategories", "getAdminProducts",
                  "getAllProducts", "allReviewsOfProduct"} : ReadProducts(r, op)
    \/ \E id \in ApiProductIds : GetSingleProduct(r, id)
    \/ \E op \in {"getlatestProducts", "getAllCategories", "getAdminProducts",
                  "getAllProducts", "allReviewsOfProduct", "getSingleProduct",
                  "updateProduct", "deleteProduct"} : StoreCallFail(r, op)

\* The review handlers, the review ids capped for the handler specification.
ReviewHandlers(r) ==
    \/ /\ nextReview < ApiReviews
       /\ \E p \in ApiProductIds : NewReviewCreate(r, p, 5)
    \/ \E rid \in 1..(ApiReviews + 1) : DeleteReviewFind(r, rid)
    \/ ReviewSteps(r)
    \/ ReviewFailures(r)

\* Every product, review, coupon and payment handler, one request at a time.
NextApi ==
    \/ ProductWriters(1)
    \/ ProductReaders(1)
    \/ ReviewHandlers(1)
    \/ CouponHandlers(1)
    \/ PayHandler(1)

\* A store with no product yet.
InitEmpty ==
    /\ products = [p \in {} |-> NewProductDoc(1)]
    /\ nextProduct = 0
    /\ reviews = {}
    /\ nextReview = 0
    /\ req = [r \in Reqs |-> Idle]
    /\ res = NoRes
    /\ coupons = {}
    /\ nextCoupon = 0
    /\ intents = 0
    /\ StatsIdle

SpecApi == InitEmpty /\ [][NextApi]_vars

\* --------------------------------------------- getPieCharts, the stock
\* A count query of getPieCharts that has not resolved yet.
Pending == -1

\* getPieCharts: Promise.all issues the queries together.
PieArrive(r) ==
    /\ Free(r)
    /\ req' = [req EXCEPT ![r] = [Idle EXCEPT !.op = "getPieCharts", !.pc = "counting",
                  !.body = [productsCount |-> Pending, outOfStock |-> Pending]]]
    /\ UNCHANGED <<prodVars, res, payVars, statVars>>

\* Product.countDocuments() resolves.
PieCountProducts(r) ==
    /\ req[r].op = "getPieCharts" /\ req[r].body.productsCount = Pending
    /\ req' = [req EXCEPT ![r].body.productsCount = Cardinality(DOMAIN products)]
    /\ UNCHANGED <<prodVars, res, payVars, statVars>>

\* Product.countDocuments({ stock: 0 }) resolves.
PieCountOutOfStock(r) ==
    /\ req[r].op = "getPieCharts" /\ req[r].body.outOfStock = Pending
    /\ req' = [req EXCEPT ![r].body.outOfStock =
                  Cardinality({p \in DOMAIN products : products[p].stock = 0})]
    /\ UNCHANGED <<prodVars, res, payVars, statVars>>

\* stockAvailability of the response, from the two counts.
stockAvailability(productsCount, outOfStock) ==
    [inStock |-> productsCount - outOfStock, outOfStock |-> outOfStock]

\* Every query has resolved: the charts are built and sent, 200.
PieRespond(r) ==
    /\ req[r].op = "getPieCharts"
    /\ req[r].body.productsCount # Pending /\ req[r].body.outOfStock # Pending
    /\ out' = [op |-> "getPieCharts",
               productsCount |-> req[r].body.productsCount,
               stockAvailability |->
                   stockAvailability(req[r].body.productsCount, req[r].body.outOfStock)]
    /\ res' = Json("getPieCharts", 200, "charts")
    /\ req' = [req EXCEPT ![r] = Idle]
    /\ UNCHANGED <<prodVars, payVars, today, docs>>

\* A query of Promise.all rejects.
PieFail(r) ==
    /\ req[r].op = "getPieCharts"
    /\ res' = TryCatch("getPieCharts", 0)
    /\ req' = [req EXCEPT ![r] = Idle]
    /\ UNCHANGED <<prodVars, payVars, statVars>>

PieHandler(r) ==
    \/ PieArrive(r)
    \/ PieCountProducts(r)
    \/ PieCountOutOfStock(r)
    \/ PieRespond(r)
    \/ PieFail(r)

\* getPieCharts on one request while product requests are served on another.
NextPie == PieHandler(1) \/ ProductWriters(2)

SpecPie == InitEmpty /\ [][NextPie]_vars

\* ------------------------------------------- products and their reviews
\* Product and review requests, one at a time, on a store with no product yet.
NextRef == ProductWriters(1) \/ ReviewHandlers(1)

SpecRef == InitEmpty /\ [][NextRef]_vars

\* ------------------------------------------------------------- claims
StoredAgg(p) ==
    [ratings |-> products[p].ratings, numOfReviews |-> products[p].numOfReviews]

AllIdle == \A r \in Reqs : req[r].pc = "idle"

\* t is x / n rounded to the nearest integer, halves up.
IsRounded(t, x, n) == 2 * (t * n - x) <= n /\ 2 * (x - t * n) < n

\* C1: when review requests run one at a time and no store call fails, then
\* after each newReview or deleteReview has completed the product's
\* numOfReviews is the number of reviews stored for it and its ratings is
\* their mean rounded to one decimal (0 when there are none); a first review
\* of rating 5 leaves ratings = 5 and numOfReviews = 1.
C1_AggregateMatchesReviews ==
    \A p \in DOMAIN products :
        (\A r \in Reqs : req[r].p # p) =>
            LET rs == ReviewsOf(p)
                n  == Cardinality(rs)
            IN  /\ products[p].numOfReviews = n
                /\ n = 0 => products[p].ratings = 0
                /\ n > 0 => IsRounded(products[p].ratings, 10 * SumRatings(rs), n)
                /\ (n = 1 /\ \A rv \in rs : rv.rating = 5) => products[p].ratings = 50

\* Three reviews (5, 5, 1) are stored, the last newReview has completed, and
\* the product holds 3 reviews and the rounded mean 3.7.
C1_Witness ==
    /\ AllIdle
    /\ res.op = "newReview" /\ res.status = 201
    /\ \E p \in DOMAIN products :
        /\ Cardinality(ReviewsOf(p)) = 3
        /\ SumRatings(ReviewsOf(p)) = 11
        /\ products[p].ratings = 37
        /\ products[p].numOfReviews = 3

\* C2: two review requests on one product can race: each write-back stores
\* the aggregate its own request read earlier, whatever the reviews are by
\* then, so the last write-back wins with a possibly stale aggregate.
C2_WriteBackStoresItsRead ==
    [][\A r \in Reqs :
          (req[r].pc = "write" /\ req'[r].pc = "idle" /\ req[r].p \in DOMAIN products)
              => /\ products'[req[r].p].ratings = req[r].agg.ratings
                 /\ products'[req[r].p].numOfReviews = req[r].agg.numOfReviews]_vars

\* Both requests have completed, no store call has failed, and the product's
\* stored aggregate differs from the aggregate of its current reviews.
C2_Witness ==
    /\ AllIdle
    /\ nextReview = 2
    /\ res.status \in {200, 201}
    /\ \E p \in DOMAIN products : StoredAgg(p) # findAverageRatings(p)

\* C4: when the aggregate read or the write-back fails after the review
\* mutation, the request ends in an error, the review collection is left as
\* it is (no compensating action) and the product keeps its ratings and
\* numOfReviews.
C4_FailureKeepsMutation ==
    [][\A r \in Reqs :
          (req[r].pc \in {"read", "write"} /\ req'[r].pc = "idle"
              /\ res'.status \notin {200, 201})
              => /\ res'.status = 500
                 /\ res'.op = req[r].op
                 /\ reviews' = reviews
                 /\ products' = products]_vars

\* A newReview has ended in an error, its review is stored, and the product's
\* numOfReviews is not the number of its reviews.
C4_Witness ==
    /\ res.op = "newReview" /\ res.status = 500
    /\ \E rv \in reviews :
        /\ rv.id = res.id
        /\ rv.product \in DOMAIN products
        /\ products[rv.product].numOfReviews # Cardinality(ReviewsOf(rv.product))

\* The calendar month (year * 12 + month) of an instant.
MonthOf(i) == i.y * 12 + i.m

CountWhere(coll, Test(_)) == Cardinality({i \in 1..Len(coll) : Test(coll[i])})

\* C6: in getDashboardStats a record counts for last month exactly when its
\* createdAt lies anywhere in the calendar month before today's (any time of
\* its last day included), counts for this month exactly when it lies in
\* today's calendar month and is not after today, and never for both.
C6_CalendarMonthPeriods ==
    out.op = "getDashboardStats" =>
        \A c \in DOMAIN docs :
            /\ out.lastMonth[c] =
                 CountWhere(docs[c], LAMBDA doc : MonthOf(doc.createdAt) = MonthOf(today) - 1)
            /\ out.thisMonth[c] =
                 CountWhere(docs[c], LAMBDA doc : /\ MonthOf(doc.createdAt) = MonthOf(today)
                                                  /\ Key(doc.createdAt) <= Key(today))

\* The records a chart handler's date-range query returns for a window of L
\* months.
Fetched(coll, L) == FindBetween(coll, SetMonthBack(today, L), today)

\* The series over the fetched records of a window: L entries, the
\* entry at index L - 1 - monthsAgo (from 0) holding the contributions of the
\* fetched records that are monthsAgo months old, and nothing else.
RECURSIVE Contribution(_, _, _)
Contribution(coll, ago, property) ==
    IF coll = <<>> THEN 0
    ELSE (IF MonthsAgo(today, Head(coll)) = ago
          THEN (IF property = "" THEN 1 ELSE Field(Head(coll), property))
          ELSE 0) + Contribution(Tail(coll), ago, property)

SeriesIs(series, coll, L, property) ==
    /\ DOMAIN series = 1..L
    /\ \A ago \in 0..(L - 1) :
          series[L - ago] = Contribution(Fetched(coll, L), ago, property)

\* C7: in the series of getBarCharts and getLineCharts every fetched record
\* with 0 <= monthsAgo < L adds to the bucket at index L - 1 - monthsAgo only
\* (a record of today's month to the last bucket), every fetched record with
\* monthsAgo >= L adds to no bucket, and the series has exactly L entries.
C7_SeriesBuckets ==
    /\ out.op = "getBarCharts" =>
          /\ SeriesIs(out.charts.products, docs.product, 6, "")
          /\ SeriesIs(out.charts.users, docs.user, 6, "")
          /\ SeriesIs(out.charts.orders, docs.order, 12, "")
    /\ out.op = "getLineCharts" =>
          /\ SeriesIs(out.charts.products, docs.product, 12, "")
          /\ SeriesIs(out.charts.users, docs.user, 12, "")
          /\ SeriesIs(out.charts.discount, docs.order, 12, "discount")
          /\ SeriesIs(out.charts.revenue, docs.order, 12, "total")

\* getBarCharts has answered for a store whose product query returned a record
\* dated exactly 6 months before today's month, and every bucket is 0.
C7_Witness ==
    /\ out.op = "getBarCharts"
    /\ \E i \in 1..Len(Fetched(docs.product, 6)) :
          MonthsAgo(today, Fetched(docs.product, 6)[i]) = 6
    /\ \A i \in 1..6 : out.charts.products[i] = 0

\* The sum of a numeric field over the first n orders, a missing field as 0.
RECURSIVE Total(_, _, _)
Total(coll, field, n) ==
    IF n = 0 THEN 0
    ELSE Total(coll, field, n - 1)
         + (IF field \in DOMAIN coll[n] THEN coll[n][field] ELSE 0)

\* C8: for every set of orders (a missing field counting as 0) getPieCharts
\* returns discount = sum(discount), productionCost = 0.3 * sum(subtotal),
\* burnt = sum(tax + shippingCharges), marketingCost = round(0.30 * sum(total))
\* and netMargin = sum(total) less the other four, so that the five add up to
\* the gross income. (Amounts in tenths.)
C8_RevenueDistribution ==
    out.op = "getPieCharts" =>
        LET n     == Len(docs.order)
            gross == Total(docs.order, "total", n)
            d     == out.revenueDistribution
        IN  /\ d.discount = 10 * Total(docs.order, "discount", n)
            /\ d.productionCost = 3 * Total(docs.order, "subtotal", n)
            /\ d.burnt = 10 * (Total(docs.order, "tax", n)
                               + Total(docs.order, "shippingCharges", n))
            /\ d.marketingCost % 10 = 0
            /\ IsRounded(d.marketingCost \div 10, 3 * gross, 10)
            /\ d.netMargin = 10 * gross - d.discount - d.productionCost
                               - d.burnt - d.marketingCost
            /\ d.netMargin + d.discount + d.productionCost + d.burnt
                 + d.marketingCost = 10 * gross

\* getPieCharts has answered for two orders, one without a total and the other
\* with total 5, subtotal 11: marketingCost is round(1.5) = 2 and
\* productionCost is 3.3.
C8_Witness ==
    /\ out.op = "getPieCharts"
    /\ Len(docs.order) = 2
    /\ \E i \in 1..2 : "total" \notin DOMAIN docs.order[i]
    /\ out.revenueDistribution.marketingCost = 20
    /\ out.revenueDistribution.productionCost = 33

\* A step in which deleteCoupon answers a request whose id matches no stored
\* coupon, the store call itself not failing.
DeleteCouponMissed ==
    /\ res'.op = "deleteCoupon"
    /\ res' # res
    /\ res' # TryCatch("deleteCoupon", 0)
    /\ ~\E c \in coupons : c.id = res'.id

Collections == <<products, reviews, coupons>>

ChecksPass(b) ==
    /\ b.id # 0
    /\ b.id \in Users
    /\ b.items > 0
    /\ b.shipping # "none"
    /\ b.coupon # "" => \E c \in coupons : c.code = b.coupon

\* The message of the first check that fails, in the order user id, user,
\* items, shippingInfo, coupon.
FirstFailure(b) ==
    IF b.id = 0 THEN "Please login first"
    ELSE IF b.id \notin Users THEN "Invalid user ID or not logged in"
    ELSE IF b.items = 0 THEN "Please add items to cart"
    ELSE IF b.shipping = "none" THEN "Please provide shipping info"
    ELSE IF b.coupon # "" /\ ~\E c \in coupons : c.code = b.coupon
         THEN "Invalid Coupon Code"
    ELSE ""

\* C9: createPaymentIntent calls the gateway at most once per request (the
\* call ends the request) and only after the checks have passed, in the order
\* user id present, user found, items, shippingInfo, coupon; a failed check
\* forwards its error and creates no intent; a failed gateway or store call
\* ends the request with 500 "Payment Intent Creation Failed" and no success.
C9_GatewayAfterChecks ==
    [][\A r \in Reqs :
          (req[r].op = "createPaymentIntent" /\ req'[r] # req[r]) =>
              LET b == req[r].body
              IN  /\ intents' \in {intents, intents + 1}
                  /\ intents' # intents =>
                        /\ req[r].pc = "gateway" /\ req'[r].pc = "idle"
                        /\ ChecksPass(b)
                  /\ req'[r].pc = "idle" =>
                        /\ res'.op = "createPaymentIntent"
                        /\ res'.status \in {201, 400, 401, 500}
                        /\ res'.status = 201 =>
                              req[r].pc = "gateway" /\ intents' = intents + 1
                        /\ res'.status \in {400, 401} =>
                              res'.msg = FirstFailure(b) /\ intents' = intents
                        /\ res'.status = 500 =>
                              /\ res'.msg = "Payment Intent Creation Failed"
                              /\ intents' = intents
                        /\ ~ChecksPass(b) =>
                              res'.status \in {400, 401, 500} /\ intents' = intents]_vars

\* A payment intent has been created for a request that named a stored coupon.
C9_Witness ==
    /\ res.op = "createPaymentIntent" /\ res.status = 201
    /\ intents = 1
    /\ coupons # {}

\* The last response is an error forwarded to the responder.
Forwarded == res.status \notin {0, 200, 201}

\* C5 as stated: every error a product, review, coupon or payment handler
\* forwards carries status 404, 400 or 500.
C5_Original == Forwarded => res.status \in {404, 400, 500}

\* C5: every error a product, review, coupon or payment handler forwards
\* carries status 400, 401, 404 or 500, and 401 is forwarded by
\* createPaymentIntent alone: for a request without a user id ("Please login
\* first") and for a user id that matches no user ("Invalid user ID or not
\* logged in").
C5_ErrorStatuses ==
    /\ Forwarded => res.status \in {400, 401, 404, 500}
    /\ res.status = 401 <=>
          /\ res.op = "createPaymentIntent"
          /\ res.msg \in {"Please login first", "Invalid user ID or not logged in"}

\* A payment request without a user id has been answered.
C5_Witness ==
    /\ res.op = "createPaymentIntent"
    /\ res.status = 401
    /\ res.msg = "Please login first"
    /\ nextProduct > 0

\* C10: in every getPieCharts response inStock is non-negative and inStock +
\* outOfStock is the product count the store held when
\* Product.countDocuments() resolved, whatever the order of the two count
\* queries and whatever product requests run between them.
C10_StockAvailability ==
    out.op = "getPieCharts" =>
        /\ out.stockAvailability.inStock >= 0
        /\ out.stockAvailability.inStock + out.stockAvailability.outOfStock
               = out.productsCount

\* C11: once the product and review requests have been served, every stored
\* review refers to a product of the store: newReview for an id that matches
\* no product stores no review, and deleteProduct leaves no review of the
\* deleted product behind.
C11_ReviewsReferToProducts ==
    AllIdle => \A rv \in reviews : rv.product \in DOMAIN products

=============================================================================
